---------------------------- MODULE Spec2Model ----------------------------
(***************************************************************************)
(* A model of the H.264 datamosh tool: the NAL tokenizer, the byte         *)
(* corruptor and the mutation pipeline of process_video2_raw, and the      *)
(* step sequence of process_videos (src/video_processing.py).              *)
(*                                                                         *)
(* Bytes are integers 0..255, byte strings are sequences of bytes.         *)
(* Python offsets are 0-based and are kept 0-based here; Slice converts    *)
(* to TLA+'s 1-based sequences.                                            *)
(***************************************************************************)
EXTENDS Integers, Sequences, FiniteSets, Bags, TLC

VARIABLES
    pc,                     \* position inside process_video2_raw / corrupt_nal
    data,                   \* the bytes read from input_path
    nals,                   \* the tokenizer's list of NAL units
    pos,                    \* the for loops' position: 1-based in nals, the
                            \* window's 0-based start i in processed_nals
    processed_nals,         \* the units kept so far
    origin,                 \* history: for each entry of processed_nals, the
                            \* position in nals of the unit it was made from
    removed_first_idr,      \* the one-shot flag of removal_mode 'first'
    new_nals,               \* the reorder stage's list under construction
    new_origin,             \* history: origin, permuted like new_nals
    out,                    \* the bytes written to output_path
    drew_for,               \* history: for each unit the loop has passed,
                            \* whether its pass called random.uniform
    remove_spspps,          \* the options of process_video2_raw
    removal_mode,
    duplicate_pframes,
    duplicate_probability,
    reorder_intensity,
    reorder_window_size,
    corrupt_pframes_chance,
    corruption_intensity,   \* also corrupt_nal's argument
    drop_frame_percentage,
    nal,                    \* corrupt_nal: its argument
    ba,                     \* corrupt_nal: the returned bytes
    step,                   \* process_videos: per run, the step it is about to run
    offset,                 \* process_videos: per run, its offset argument
    video2_final,           \* process_videos: per run, the path Concatenate reads
    steps_log,              \* history: per run, the steps started and how each ended
    files,                  \* the paths written in upload_folder
    returned,               \* process_videos: per run, the path it returned
    reads,                  \* history: per run, the <<step, path>> pairs it opened for reading
    writes,                 \* history: per run, the <<step, path>> pairs it opened for writing
    rpc,                    \* process(): per request, its position in the handler
    form,                   \* per request, request.form: the text of each numeric field
    request_files,          \* per request, request.files: field -> filename
    params,                 \* per request, the parsed integer parameters
    flashes,                \* per request, the messages passed to flash()
    response,               \* per request, what the handler returned
    video_url,              \* per request, the video_url given to the template
    rng,                    \* the module-level generator of `random`: how many
                            \* values it has produced
    drawn,                  \* history: per run, which values of the generator it got
    want                    \* per run, the number of draws its mutation makes

options == <<remove_spspps, removal_mode, duplicate_pframes, duplicate_probability,
             reorder_intensity, reorder_window_size, corrupt_pframes_chance,
             corruption_intensity, drop_frame_percentage>>

pipeline == <<pc, data, nals, pos, processed_nals, origin, removed_first_idr,
              new_nals, new_origin, out, drew_for>>

orch == <<step, offset, video2_final, steps_log, files, returned>>

io == <<reads, writes>>

req == <<rpc, form, request_files, params, flashes, response, video_url>>

rand == <<rng, drawn, want>>

vars == <<pipeline, options, nal, ba, orch, io, req, rand, drew_for>>

\* ------------------------------------------------------------------ helpers

Max(a, b) == IF a >= b THEN a ELSE b

Min(a, b) == IF a <= b THEN a ELSE b

\* Python's data[a:b] for 0 <= a <= b <= len(data).
Slice(s, a, b) == SubSeq(s, a + 1, b)

RECURSIVE Concat(_)
\* b"".join(units): what writing the units one after another produces.
Concat(units) ==
    IF units = <<>> THEN <<>> ELSE Head(units) \o Concat(Tail(units))

\* Every sequence over S of length 0..n.
SeqsUpTo(S, n) == UNION {[1..k -> S] : k \in 0..n}

\* ---------------------------------------------------------------- tokenizer

start_code == <<0, 0, 0, 1>>

RECURSIVE Find(_, _, _)
\* bytes.find(sub, start): the lowest index >= start where sub occurs, else -1.
Find(d, sub, start) ==
    IF start + Len(sub) > Len(d) THEN -1
    ELSE IF Slice(d, start, start + Len(sub)) = sub THEN start
    ELSE Find(d, sub, start + 1)

\* Where the scan resumes after a match at idx; the variant skips one byte more.
NextStartSkip5(idx) == idx + 5

NextStart(idx) == idx + 4

RECURSIVE ScanOffsets(_, _)
\* The while loop: the offsets of the start codes found from `start` on.
ScanOffsets(d, start) ==
    LET idx == Find(d, start_code, start)
    IN  IF idx = -1 THEN <<>>
        ELSE <<idx>> \o ScanOffsets(d, NextStart(idx))

\* offsets after the loop: the matches, then len(data); the variant forgets
\* the final append.
OffsetsNoEnd(d) == ScanOffsets(d, 0)

Offsets(d) == Append(ScanOffsets(d, 0), Len(d))

\* The units sliced between consecutive offsets.
Tokenize(d) ==
    LET offsets == Offsets(d)
    IN  [i \in 1..(Len(offsets) - 1) |-> Slice(d, offsets[i], offsets[i + 1])]

\* ---------------------------------------------------------------- corruptor

\* int(255 * corruption_intensity / 100) clamped below by 1.
MaxChange(intensity) == Max(1, (255 * intensity) \div 100)

\* The lowest index random.randint may pick; one variant starts at the header
\* byte, the other at the first byte of the unit.
FirstCorruptibleFromHeader == Len(start_code)

FirstCorruptibleAnywhere == Len(start_code) - Len(start_code)

FirstCorruptible == 5

\* ba[index_to_corrupt] = (ba[index_to_corrupt] + change) % 256
CorruptAt(unit, index_to_corrupt, change) ==
    [unit EXCEPT ![index_to_corrupt + 1] = (@ + change) % 256]

\* Every value corrupt_nal can return: one per pair of random draws.
CorruptOutcomes(unit, intensity) ==
    IF Len(unit) > 5
    THEN {CorruptAt(unit, i, c) :
            i \in FirstCorruptible..(Len(unit) - 1), c \in 1..MaxChange(intensity)}
    ELSE {unit}

\* ----------------------------------------------------------------- pipeline

\* nal[4] & 0x1F; the variant forgets the mask.
NalTypeUnmasked(unit) == unit[5]

NalType(unit) == unit[5] % 32

\* len(nal) < 5, the validity filter; the off-by-one variant lets a bare start code through.
IsTooShortOffByOne(unit) == Len(unit) < 4

IsTooShort(unit) == Len(unit) < 5

\* remove_spspps == 'yes' and nal_type in [7, 8]; one variant strips the
\* sequence parameter sets only, the other strips whatever the option says.
IsStrippedAlways(unit) == NalType(unit) \in {7, 8}

IsStrippedSpsOnly(unit) == remove_spspps = "yes" /\ NalType(unit) = 7

IsStripped(unit) == remove_spspps = "yes" /\ NalType(unit) \in {7, 8}

\* The values random.uniform(0, 100) is drawn from: it stays below 100.
Draws == {0, 49, 50, 99}

\* random.uniform(0, 100) < pct
Hit(draw, pct) == draw < pct

\* I-frame removal: whether the unit is removed, given the one-shot flag.
IsIdrRemoved(unit, flag) ==
    \/ removal_mode = "first" /\ ~flag /\ NalType(unit) = 5
    \/ removal_mode = "all" /\ NalType(unit) = 5

\* removed_first_idr after a removal; the variant never sets it.
FlagNeverSet(flag) == flag

FlagAfterRemoval(flag) == flag \/ removal_mode = "first"

\* Whether the random drop stage draws at all, and the unit is dropped on that draw.
IsDropped(draw) == drop_frame_percentage > 0 /\ Hit(draw, drop_frame_percentage)

\* One pass of the duplication loop body: temp_nal, unchanged or corrupted.
CopyOutcomes(unit) ==
    UNION { IF corrupt_pframes_chance > 0 /\ Hit(d, corrupt_pframes_chance)
            THEN CorruptOutcomes(unit, corruption_intensity)
            ELSE {unit} : d \in Draws }

\* range(duplicate_pframes): nothing for a count of zero or less; the variant always keeps one.
CopiesAtLeastOne(count) == 1..Max(1, count)

Copies(count) == 1..count

\* What a P-frame that reached stage 5 appends: the lists of copies, or itself.
\* The variant lets the corruption draw act on a P-frame that is not duplicated.
PFrameOutcomesCorruptUnduplicated(unit) ==
    UNION { IF Hit(d, duplicate_probability)
            THEN [Copies(duplicate_pframes) -> CopyOutcomes(unit)]
            ELSE {<<c>> : c \in CopyOutcomes(unit)} : d \in Draws }

PFrameOutcomes(unit) ==
    UNION { IF Hit(d, duplicate_probability)
            THEN [Copies(duplicate_pframes) -> CopyOutcomes(unit)]
            ELSE {<<unit>>} : d \in Draws }

\* What one pass of the main loop does with a unit: the units it appends, the
\* flag afterwards, whether reading the header byte raised IndexError, and
\* whether the pass called random.uniform (line 115 when the drop percentage
\* is positive, line 120 for a P-frame).  The variant runs the random drop
\* before the I-frame removal.
BodyOutcomesDropFirst(unit, flag) ==
    IF IsTooShort(unit)
    THEN {[emit |-> <<>>, flag |-> flag, raised |-> FALSE, drew |-> FALSE]}
    ELSE IF IsStripped(unit)
    THEN {[emit |-> <<>>, flag |-> flag, raised |-> FALSE, drew |-> FALSE]}
    ELSE UNION {
           IF IsDropped(d)
           THEN {[emit |-> <<>>, flag |-> flag, raised |-> FALSE, drew |-> TRUE]}
           ELSE IF IsIdrRemoved(unit, flag)
           THEN {[emit |-> <<>>, flag |-> FlagAfterRemoval(flag), raised |-> FALSE,
                  drew |-> drop_frame_percentage > 0]}
           ELSE IF NalType(unit) = 1
           THEN {[emit |-> e, flag |-> flag, raised |-> FALSE, drew |-> TRUE] :
                   e \in PFrameOutcomes(unit)}
           ELSE {[emit |-> <<unit>>, flag |-> flag, raised |-> FALSE,
                  drew |-> drop_frame_percentage > 0]}
           : d \in Draws }

BodyOutcomes(unit, flag) ==
    IF IsTooShort(unit)
    THEN {[emit |-> <<>>, flag |-> flag, raised |-> FALSE, drew |-> FALSE]}
    ELSE IF Len(unit) < 5
    THEN {[emit |-> <<>>, flag |-> flag, raised |-> TRUE, drew |-> FALSE]}
    ELSE IF IsStripped(unit)
    THEN {[emit |-> <<>>, flag |-> flag, raised |-> FALSE, drew |-> FALSE]}
    ELSE IF IsIdrRemoved(unit, flag)
    THEN {[emit |-> <<>>, flag |-> FlagAfterRemoval(flag), raised |-> FALSE,
           drew |-> FALSE]}
    ELSE UNION {
           IF IsDropped(d)
           THEN {[emit |-> <<>>, flag |-> flag, raised |-> FALSE, drew |-> TRUE]}
           ELSE IF NalType(unit) = 1
           THEN {[emit |-> e, flag |-> flag, raised |-> FALSE, drew |-> TRUE] :
                   e \in PFrameOutcomes(unit)}
           ELSE {[emit |-> <<unit>>, flag |-> flag, raised |-> FALSE,
                  drew |-> drop_frame_percentage > 0]}
           : d \in Draws }

\* The slice processed_nals[start:start + size], start 0-based; the variant
\* slides the window by one unit less than its size.
WindowOverlapping(s, start, size) ==
    Slice(s, Max(0, start - 1), Min(Len(s), start + size))

Window(s, start, size) == Slice(s, start, Min(Len(s), start + size))

\* s rearranged by the permutation p of its positions.
Rearranged(s, p) == [k \in 1..Len(s) |-> s[p[k]]]

\* Reading the file and the tokenizer (lines 72-94).
ReadAndTokenize ==
    /\ pc = "read"
    /\ nals' = Tokenize(data)
    /\ processed_nals' = <<>>
    /\ origin' = <<>>
    /\ removed_first_idr' = FALSE
    /\ pos' = 1
    /\ pc' = IF Tokenize(data) = <<>> THEN "reorder" ELSE "loop"
    /\ drew_for' = <<>>
    /\ UNCHANGED <<data, new_nals, new_origin, out, options, nal, ba, orch, io, req, rand>>

\* One pass of `for nal in nals` (lines 97-132).
ProcessNal ==
    /\ pc = "loop"
    /\ pos <= Len(nals)
    /\ \E o \in BodyOutcomes(nals[pos], removed_first_idr) :
         /\ processed_nals' = processed_nals \o o.emit
         /\ origin' = origin \o [k \in 1..Len(o.emit) |-> pos]
         /\ removed_first_idr' = o.flag
         /\ drew_for' = Append(drew_for, o.drew)
         /\ pc' = IF o.raised THEN "raised"
                  ELSE IF pos = Len(nals) THEN "reorder" ELSE "loop"
    /\ pos' = pos + 1
    /\ UNCHANGED <<data, nals, new_nals, new_origin, out, options, nal, ba, orch, io, req, rand>>

\* The test of line 135: whether the reorder stage runs at all.
ReorderEnabled == reorder_intensity > 0 /\ reorder_window_size > 1

\* Line 135 false: the stage is skipped.
ReorderSkip ==
    /\ pc = "reorder"
    /\ ~ReorderEnabled
    /\ pc' = "write"
    /\ UNCHANGED <<data, nals, pos, processed_nals, origin, removed_first_idr,
                   new_nals, new_origin, out, options, nal, ba, orch, io, req, rand, drew_for>>

\* Line 135 true: new_nals = [] and the loop over the windows starts.
ReorderBegin ==
    /\ pc = "reorder"
    /\ ReorderEnabled
    /\ new_nals' = <<>>
    /\ new_origin' = <<>>
    /\ pos' = 0
    /\ pc' = "windows"
    /\ UNCHANGED <<data, nals, processed_nals, origin, removed_first_idr, out,
                   options, nal, ba, orch, io, req, rand, drew_for>>

\* The orders random.shuffle can leave n positions in, or the one order kept
\* when the window's draw is not below reorder_intensity (lines 140-141).
WindowOrders(n) ==
    UNION { IF Hit(d, reorder_intensity)
            THEN Permutations(1..n)
            ELSE {[k \in 1..n |-> k]} : d \in Draws }

\* One pass of `for i in range(0, len(processed_nals), reorder_window_size)`.
ReorderWindow ==
    /\ pc = "windows"
    /\ pos < Len(processed_nals)
    /\ LET window == Window(processed_nals, pos, reorder_window_size)
           owindow == Window(origin, pos, reorder_window_size)
       IN  \E p \in WindowOrders(Len(window)) :
             /\ new_nals' = new_nals \o Rearranged(window, p)
             /\ new_origin' = new_origin \o Rearranged(owindow, p)
    /\ pos' = pos + reorder_window_size
    /\ UNCHANGED <<pc, data, nals, processed_nals, origin, removed_first_idr, out,
                   options, nal, ba, orch, io, req, rand, drew_for>>

\* The loop over the windows has ended: processed_nals = new_nals (line 144).
ReorderEnd ==
    /\ pc = "windows"
    /\ pos >= Len(processed_nals)
    /\ processed_nals' = new_nals
    /\ origin' = new_origin
    /\ pc' = "write"
    /\ UNCHANGED <<data, nals, pos, removed_first_idr, new_nals, new_origin, out,
                   options, nal, ba, orch, io, req, rand, drew_for>>

\* Writing the units one after another (lines 147-149).
WriteOutput ==
    /\ pc = "write"
    /\ out' = Concat(processed_nals)
    /\ pc' = "done"
    /\ UNCHANGED <<data, nals, pos, processed_nals, origin, removed_first_idr,
                   new_nals, new_origin, options, nal, ba, orch, io, req, rand, drew_for>>

\* ------------------------------------------------- request: form and uploads

\* The numeric fields of the form, by the key process() reads (lines 52-85).
FieldNames == {"offset", "duplicate_pframes", "duplicate_probability",
               "reorder_intensity", "reorder_window_size", "corrupt_pframes",
               "corruption_intensity", "drop_frame_percentage"}

\* int(text): the texts it accepts, and the integer each denotes; every other
\* text raises ValueError.
IntParses(text) == text \in {"0", "1", "3", "10", "50", "100"}

IntOf(text) ==
    CASE text = "0" -> 0
      [] text = "1" -> 1
      [] text = "3" -> 3
      [] text = "10" -> 10
      [] text = "50" -> 50
      [] text = "100" -> 100

\* float(text) accepts the integer literals and the decimal ones.
FloatParses(text) == IntParses(text) \/ text \in {"0.0", "2.0"}

FloatOf(text) ==
    CASE text = "0.0" -> 0
      [] text = "2.0" -> 2
      [] OTHER -> IntOf(text)

\* request.form.get(field, default): the default stands in for an absent key.
FormGet(f, field, default) == IF f[field] = "absent" THEN default ELSE f[field]

\* try: int(request.form.get(field, default)) / except ValueError: fallback
\* (lines 58-85).  The variant falls back to 0 whatever the field.
IntFieldZeroOnError(f, field, default, fallback) ==
    LET text == FormGet(f, field, default)
    IN  IF IntParses(text) THEN IntOf(text) ELSE 0

IntField(f, field, default, fallback) ==
    LET text == FormGet(f, field, default)
    IN  IF IntParses(text) THEN IntOf(text) ELSE fallback

\* try: float(request.form.get('offset', '0.0')) / except ValueError: 0.0
\* (lines 52-55).
FloatField(f, field, default, fallback) ==
    LET text == FormGet(f, field, default)
    IN  IF FloatParses(text) THEN FloatOf(text) ELSE fallback

ParsedOffset(f) == FloatField(f, "offset", "0.0", 0)

\* The seven integer parameters, each parsed on its own (lines 58-85).
ParsedParams(f) ==
    [duplicate_pframes |-> IntField(f, "duplicate_pframes", "1", 1),
     duplicate_probability |-> IntField(f, "duplicate_probability", "100", 100),
     reorder_intensity |-> IntField(f, "reorder_intensity", "0", 0),
     reorder_window_size |-> IntField(f, "reorder_window_size", "10", 10),
     corrupt_pframes_chance |-> IntField(f, "corrupt_pframes", "0", 0),
     corruption_intensity |-> IntField(f, "corruption_intensity", "50", 50),
     drop_frame_percentage |-> IntField(f, "drop_frame_percentage", "0", 0)]

ALLOWED_EXTENSIONS == {"mp4", "mov", "avi", "mkv"}

\* str.lower() on the words the uploads' names are made of.
Lower(word) ==
    CASE word = "MOV" -> "mov"
      [] word = "CLIP" -> "clip"
      [] OTHER -> word

\* The position of the last "." of a name, 0 when it has none.
LastDot(name) ==
    CHOOSE k \in 0..Len(name) :
      /\ (k > 0 => name[k] = ".")
      /\ \A j \in (k + 1)..Len(name) : name[j] # "."

\* allowed_file (lines 25-29): the text after the last "." is an allowed word.
allowed_file(filename) ==
    /\ \E k \in DOMAIN filename : filename[k] = "."
    /\ LET ext == SubSeq(filename, LastDot(filename) + 1, Len(filename))
       IN  Len(ext) = 1 /\ Lower(ext[1]) \in ALLOWED_EXTENSIONS

\* secure_filename on the names of this model: a path separator inside the
\* name becomes "_"; words, "_" and "." are kept (line 107).
SecureFilename(name) ==
    [k \in DOMAIN name |-> IF name[k] = "/" THEN "_" ELSE name[k]]

\* The three tests of lines 88-103, in order: the message flashed, "" for none.
\* The variant accepts the pair when either file is allowed.
ValidationErrorEitherAllowed(fs) ==
    IF ~({"video1", "video2"} \subseteq DOMAIN fs)
    THEN "Both video files are required."
    ELSE IF fs["video1"] = <<>> \/ fs["video2"] = <<>>
    THEN "No selected file for one or both videos."
    ELSE IF ~(allowed_file(fs["video1"]) \/ allowed_file(fs["video2"]))
    THEN "One or both files have an invalid file type."
    ELSE ""

ValidationError(fs) ==
    IF ~({"video1", "video2"} \subseteq DOMAIN fs)
    THEN "Both video files are required."
    ELSE IF fs["video1"] = <<>> \/ fs["video2"] = <<>>
    THEN "No selected file for one or both videos."
    ELSE IF ~(allowed_file(fs["video1"]) /\ allowed_file(fs["video2"]))
    THEN "One or both files have an invalid file type."
    ELSE ""

\* The message of the handler's except clause (line 132).
ErrorNotice == "An error occurred during video processing. Please try again."

\* ------------------------------------------------------------- orchestrator

\* Concurrent calls of process_videos, one per request; run r has uid r.
NumRuns == 2
Runs == 1..NumRuns

\* The offset argument: negative, zero, positive.
OffsetValues == {-1, 0, 2}

\* No path: what `returned` holds until process_videos returns.
NoPath == <<>>

\* File names are sequences of tokens: words, "_" and ".", so that two names
\* are the same string exactly when they are the same sequence.
NameTokens(name) ==
    CASE name = "video2_processed" -> <<"video2", "_", "processed">>
      [] name = "video2_final" -> <<"video2", "_", "final">>
      [] OTHER -> <<name>>

\* The extension of each file process_videos names.
ExtTokens(name) == IF name = "output" THEN <<".", "mp4">> ELSE <<".", "264">>

\* os.path.join(upload_folder, f"<name>_{uid}<ext>") (lines 253-258); the
\* variant leaves the uid out of the name.
PathWithoutUid(name, uid) == NameTokens(name) \o ExtTokens(name)

Path(name, uid) == NameTokens(name) \o <<"_", ToString(uid)>> \o ExtTokens(name)

\* secure_filename(f"<field>_{uid}_" + filename) (app.py lines 107-110).
UploadPath(field, r) ==
    SecureFilename(<<field, "_", ToString(r), "_">> \o request_files[r][field])

\* The files a step opens: run r's history grows by the paths read and written.
Touch(r, name, read, written) ==
    /\ reads' = [reads EXCEPT ![r] = @ \cup {<<name, p>> : p \in read}]
    /\ writes' = [writes EXCEPT ![r] = @ \cup {<<name, p>> : p \in written}]

\* An upload's name, as its words.
ClipMp4 == <<"clip", ".", "mp4">>

\* The form with every numeric key absent.
EmptyForm == [field \in FieldNames |-> "absent"]

\* No mutation in progress: the generator as it is after `import random`.
RandIdle ==
    /\ rng = 0
    /\ drawn = [r \in Runs |-> <<>>]
    /\ want = [r \in Runs |-> 0]

\* No request in progress: process_videos is called on two saved uploads.
ReqIdle ==
    /\ rpc = [r \in Runs |-> "none"]
    /\ form = [r \in Runs |-> EmptyForm]
    /\ request_files = [r \in Runs |-> [field \in {"video1", "video2"} |-> ClipMp4]]
    /\ params = [r \in Runs |-> ParsedParams(EmptyForm)]
    /\ flashes = [r \in Runs |-> <<>>]
    /\ response = [r \in Runs |-> "none"]
    /\ video_url = [r \in Runs |-> NoPath]

\* No call of process_videos and no request in progress, the other
\* specifications' constant part: there is no run, so every per-run map is
\* empty.
OrchIdle ==
    /\ step = <<>>
    /\ offset = <<>>
    /\ video2_final = <<>>
    /\ steps_log = <<>>
    /\ files = {}
    /\ returned = <<>>
    /\ reads = <<>>
    /\ writes = <<>>
    /\ rpc = <<>>
    /\ form = <<>>
    /\ request_files = <<>>
    /\ params = <<>>
    /\ flashes = <<>>
    /\ response = <<>>
    /\ video_url = <<>>
    /\ rng = 0
    /\ drawn = <<>>
    /\ want = <<>>

\* The step after MutateB: the test `offset > 0` of line 270.  The variant
\* applies the offset whatever its value.
AfterMutateAlwaysOffset(r) == "OffsetB"

AfterMutate(r) == IF offset[r] > 0 THEN "OffsetB" ELSE "Concatenate"

\* What running step `name` of run r does: it succeeds, writes `path` and goes
\* on to `next`, or it raises (the file it was writing may exist) and
\* process_videos re-raises (lines 284-286).  The variant goes on after a failure.
StepEffectsContinueOnFailure(r, name, path, next) ==
    \E ok \in BOOLEAN, wrote \in BOOLEAN :
      /\ steps_log' = [steps_log EXCEPT ![r] = Append(@, [step |-> name, ok |-> ok])]
      /\ files' = IF ok \/ wrote THEN files \cup {path} ELSE files
      /\ step' = [step EXCEPT ![r] = next]

StepEffects(r, name, path, next) ==
    \E ok \in BOOLEAN, wrote \in BOOLEAN :
      /\ steps_log' = [steps_log EXCEPT ![r] = Append(@, [step |-> name, ok |-> ok])]
      /\ files' = IF ok \/ wrote THEN files \cup {path} ELSE files
      /\ step' = [step EXCEPT ![r] = IF ok THEN next ELSE "Failed"]

\* extract_raw_stream(video1_path, video1_raw) (line 261).
ExtractA(r) ==
    /\ step[r] = "ExtractA"
    /\ StepEffects(r, "ExtractA", Path("video1", r), "ExtractB")
    /\ Touch(r, "ExtractA", {UploadPath("video1", r)}, {Path("video1", r)})
    /\ UNCHANGED <<offset, video2_final, returned, pipeline, options, nal, ba, req, rand>>

\* extract_raw_stream(video2_path, video2_raw) (line 262).
ExtractB(r) ==
    /\ step[r] = "ExtractB"
    /\ StepEffects(r, "ExtractB", Path("video2", r), "MutateB")
    /\ Touch(r, "ExtractB", {UploadPath("video2", r)}, {Path("video2", r)})
    /\ UNCHANGED <<offset, video2_final, returned, pipeline, options, nal, ba, req, rand>>

\* process_video2_raw(video2_raw, video2_processed, ...) and, when it returns,
\* the test of line 270 with its else branch (lines 265-273).
MutateB(r) ==
    /\ step[r] = "MutateB"
    /\ StepEffects(r, "MutateB", Path("video2_processed", r), AfterMutate(r))
    /\ Touch(r, "MutateB", {Path("video2", r)}, {Path("video2_processed", r)})
    /\ video2_final' =
         IF step'[r] = "Concatenate"
         THEN [video2_final EXCEPT ![r] = Path("video2_processed", r)]
         ELSE video2_final
    /\ UNCHANGED <<offset, returned, pipeline, options, nal, ba, req, rand>>

\* apply_offset(video2_processed, video2_final, offset) (line 271).
OffsetB(r) ==
    /\ step[r] = "OffsetB"
    /\ StepEffects(r, "OffsetB", video2_final[r], "Concatenate")
    /\ Touch(r, "OffsetB", {Path("video2_processed", r)}, {video2_final[r]})
    /\ UNCHANGED <<offset, video2_final, returned, pipeline, options, nal, ba, req, rand>>

\* concatenate_streams(video1_raw, video2_final, concatenated_raw) (line 276).
Concatenate(r) ==
    /\ step[r] = "Concatenate"
    /\ StepEffects(r, "Concatenate", Path("final", r), "Remux")
    /\ Touch(r, "Concatenate", {Path("video1", r), video2_final[r]}, {Path("final", r)})
    /\ UNCHANGED <<offset, video2_final, returned, pipeline, options, nal, ba, req, rand>>

\* remux_to_mp4(concatenated_raw, final_output) and `return final_output`
\* (lines 279-282).
Remux(r) ==
    /\ step[r] = "Remux"
    /\ StepEffects(r, "Remux", Path("output", r), "Done")
    /\ Touch(r, "Remux", {Path("final", r)}, {Path("output", r)})
    /\ returned' =
         IF step'[r] = "Done"
         THEN [returned EXCEPT ![r] = Path("output", r)]
         ELSE returned
    /\ UNCHANGED <<offset, video2_final, pipeline, options, nal, ba, req, rand>>

\* ---------------------------------------------------------- request handler

\* process() up to the end of validation (app.py lines 47-103): the numeric
\* fields are parsed, then the uploads are validated; a rejected request is
\* answered with a message and a redirect to request.url.
Receive(r) ==
    /\ rpc[r] = "received"
    /\ params' = [params EXCEPT ![r] = ParsedParams(form[r])]
    /\ offset' = [offset EXCEPT ![r] = ParsedOffset(form[r])]
    /\ LET error == ValidationError(request_files[r])
       IN  IF error # ""
           THEN /\ flashes' = [flashes EXCEPT ![r] = Append(@, error)]
                /\ response' = [response EXCEPT ![r] = "redirect request.url"]
                /\ rpc' = [rpc EXCEPT ![r] = "responded"]
           ELSE /\ rpc' = [rpc EXCEPT ![r] = "save"]
                /\ UNCHANGED <<flashes, response>>
    /\ UNCHANGED <<step, video2_final, steps_log, files, returned, io, form,
                   request_files, video_url, pipeline, options, nal, ba, rand>>

\* video1_file.save(video1_path); video2_file.save(video2_path) and the call
\* of process_videos (lines 113-118).  A save may raise: the second one is
\* then not reached.
SaveUploads(r) ==
    /\ rpc[r] = "save"
    /\ \E saved1 \in BOOLEAN, saved2 \in BOOLEAN :
         LET opened == IF saved1
                       THEN {UploadPath("video1", r), UploadPath("video2", r)}
                       ELSE {UploadPath("video1", r)}
         IN  /\ writes' = [writes EXCEPT ![r] = @ \cup {<<"save", p>> : p \in opened}]
             /\ files' = files \cup opened
             /\ rpc' = [rpc EXCEPT ![r] = IF saved1 /\ saved2 THEN "processing" ELSE "raised"]
             /\ step' = [step EXCEPT ![r] = IF saved1 /\ saved2 THEN "ExtractA" ELSE @]
    /\ UNCHANGED <<offset, video2_final, steps_log, returned, reads, form,
                   request_files, params, flashes, response, video_url,
                   pipeline, options, nal, ba, rand>>

\* url_for('uploaded_file', filename=os.path.basename(output_video_path)) and
\* render_template('index.html', video_url=video_url) (lines 126-127).
RenderResult(r) ==
    /\ rpc[r] = "processing"
    /\ step[r] = "Done"
    /\ video_url' = [video_url EXCEPT ![r] = <<"/", "uploads", "/">> \o returned[r]]
    /\ response' = [response EXCEPT ![r] = "render index.html"]
    /\ rpc' = [rpc EXCEPT ![r] = "responded"]
    /\ UNCHANGED <<orch, io, form, request_files, params, flashes, pipeline,
                   options, nal, ba, rand>>

\* What the handler does with an exception raised by a save or by
\* process_videos: the except clause of lines 129-133.  The variant has no
\* except clause: the exception becomes the framework's error response.
ExceptionEffectsUncaught(r) ==
    /\ response' = [response EXCEPT ![r] = "500"]
    /\ UNCHANGED flashes

ExceptionEffects(r) ==
    /\ flashes' = [flashes EXCEPT ![r] = Append(@, ErrorNotice)]
    /\ response' = [response EXCEPT ![r] = "redirect index"]

HandleException(r) ==
    /\ rpc[r] = "raised" \/ (rpc[r] = "processing" /\ step[r] = "Failed")
    /\ ExceptionEffects(r)
    /\ rpc' = [rpc EXCEPT ![r] = "responded"]
    /\ UNCHANGED <<orch, io, form, request_files, params, video_url, pipeline,
                   options, nal, ba, rand>>

\* ------------------------------------------------------------------- inputs

\* Buffers for the tokenizer: every byte string over a three-letter alphabet.
MaxBuf == 9
ByteAlphabet == {0, 1, 2}
Buffers == SeqsUpTo(ByteAlphabet, MaxBuf)

\* Arguments for corrupt_nal.
MaxIntensity == 100
CorruptInputs ==
    { start_code,
      start_code \o <<65>>,
      start_code \o <<65, 255>>,
      start_code \o <<101, 0, 200>> }

\* Units for the pipeline: a bare start code, an SPS, an IDR unit and a
\* P-frame whose payload byte wraps; the headers carry nal_ref_idc bits.
UnitShort == start_code
UnitSps == start_code \o <<103, 20>>
UnitIdr == start_code \o <<101, 30>>
UnitP == start_code \o <<65, 255>>
Catalogue == {UnitShort, UnitSps, UnitIdr, UnitP}

MaxUnits == 2
Streams == {Concat(us) : us \in SeqsUpTo(Catalogue, MaxUnits)}

\* A P-frame whose payload is four zero bytes, and the streams made of it
\* and of IDR units.
UnitPZeros == start_code \o <<65, 0, 0, 0, 0>>
ZeroPayloadStreams == {Concat(us) : us \in SeqsUpTo({UnitPZeros, UnitIdr}, MaxUnits)}

\* The synthetic stream [SPS, PPS, IDR, P, P, P, IDR, P, ...]: unit k (from 0)
\* carries the payload byte 10 + k.
ScenarioHeader(k) ==
    IF k = 0 THEN 103 ELSE IF k = 1 THEN 104 ELSE IF (k - 2) % 4 = 0 THEN 101 ELSE 65

ScenarioUnit(k) == start_code \o <<ScenarioHeader(k), 10 + k>>

ScenarioLen == 8
ScenarioStreams ==
    {Concat([k \in 1..n |-> ScenarioUnit(k - 1)]) : n \in 0..ScenarioLen}

\* Option values.
YesNo == {"yes", "no"}
Modes == {"none", "first", "all"}
MaxDup == 2
DuplicatePcts == {0, 100}
ReorderPcts == {0, 100}
CorruptPcts == {0, 50}
DropPcts == {0, 50}
MaxWindow == 2


\* ----------------------------------------------------------- pipeline spec

\* Every variable the pipeline sets before it reads it.
PipelineStart ==
    /\ pc = "read"
    /\ nals = <<>>
    /\ pos = 0
    /\ processed_nals = <<>>
    /\ origin = <<>>
    /\ removed_first_idr = FALSE
    /\ new_nals = <<>>
    /\ new_origin = <<>>
    /\ out = <<>>
    /\ drew_for = <<>>
    /\ nal = <<>>
    /\ ba = <<>>
    /\ OrchIdle

\* No call of process_video2_raw or corrupt_nal in progress.
PipelineIdle ==
    /\ pc = "idle"
    /\ data = <<>>
    /\ nals = <<>>
    /\ pos = 0
    /\ processed_nals = <<>>
    /\ origin = <<>>
    /\ removed_first_idr = FALSE
    /\ new_nals = <<>>
    /\ new_origin = <<>>
    /\ out = <<>>
    /\ drew_for = <<>>
    /\ nal = <<>>
    /\ ba = <<>>
    /\ remove_spspps = "yes"
    /\ removal_mode = "first"
    /\ duplicate_pframes = 1
    /\ duplicate_probability = 100
    /\ reorder_intensity = 0
    /\ reorder_window_size = 10
    /\ corrupt_pframes_chance = 0
    /\ corruption_intensity = 50
    /\ drop_frame_percentage = 0

\* Small arbitrary streams under every combination of the options.
InitGeneral ==
    /\ data \in Streams
    /\ remove_spspps \in YesNo
    /\ removal_mode \in Modes
    /\ duplicate_pframes \in 0..MaxDup
    /\ duplicate_probability \in DuplicatePcts
    /\ reorder_intensity \in ReorderPcts
    /\ reorder_window_size \in 1..MaxWindow
    /\ corrupt_pframes_chance \in CorruptPcts
    /\ corruption_intensity = 0
    /\ drop_frame_percentage \in DropPcts

\* The synthetic stream with every random stage switched off.
InitScenario ==
    /\ data \in ScenarioStreams
    /\ remove_spspps \in YesNo
    /\ removal_mode \in Modes
    /\ duplicate_pframes \in 0..MaxDup
    /\ duplicate_probability = 0
    /\ reorder_intensity = 0
    /\ reorder_window_size \in 1..MaxWindow
    /\ corrupt_pframes_chance = 0
    /\ corruption_intensity = 0
    /\ drop_frame_percentage = 0

\* Streams with zero payloads: each P-frame is copied once and the copy may be
\* corrupted; nothing is filtered or dropped.
InitZeroPayload ==
    /\ data \in ZeroPayloadStreams
    /\ remove_spspps = "no"
    /\ removal_mode = "none"
    /\ duplicate_pframes = 1
    /\ duplicate_probability = 100
    /\ reorder_intensity \in ReorderPcts
    /\ reorder_window_size \in 1..MaxWindow
    /\ corrupt_pframes_chance \in CorruptPcts
    /\ corruption_intensity = 0
    /\ drop_frame_percentage = 0

Init == PipelineStart /\ (InitGeneral \/ InitScenario \/ InitZeroPayload)

Next ==
    \/ ReadAndTokenize
    \/ ProcessNal
    \/ ReorderSkip
    \/ ReorderBegin
    \/ ReorderWindow
    \/ ReorderEnd
    \/ WriteOutput

Spec == Init /\ [][Next]_vars

\* ------------------------------------------------------------ tokenizer spec

InitTok ==
    /\ PipelineStart
    /\ data \in Buffers
    /\ remove_spspps = "yes"
    /\ removal_mode = "first"
    /\ duplicate_pframes = 1
    /\ duplicate_probability = 100
    /\ reorder_intensity = 0
    /\ reorder_window_size = 10
    /\ corrupt_pframes_chance = 0
    /\ corruption_intensity = 50
    /\ drop_frame_percentage = 0

NextTok == ReadAndTokenize

SpecTok == InitTok /\ [][NextTok]_vars

\* ------------------------------------------------------------ corruptor spec

InitCorrupt ==
    /\ pc = "corrupt_call"
    /\ nal \in CorruptInputs
    /\ corruption_intensity \in 0..MaxIntensity
    /\ ba = <<>>
    /\ data = <<>>
    /\ nals = <<>>
    /\ pos = 0
    /\ processed_nals = <<>>
    /\ origin = <<>>
    /\ removed_first_idr = FALSE
    /\ new_nals = <<>>
    /\ new_origin = <<>>
    /\ out = <<>>
    /\ drew_for = <<>>
    /\ remove_spspps = "yes"
    /\ removal_mode = "first"
    /\ duplicate_pframes = 1
    /\ duplicate_probability = 100
    /\ reorder_intensity = 0
    /\ reorder_window_size = 10
    /\ corrupt_pframes_chance = 0
    /\ drop_frame_percentage = 0
    /\ OrchIdle

\* A call of corrupt_nal(nal, corruption_intensity) and its return (lines 36-44).
CorruptCall ==
    /\ pc = "corrupt_call"
    /\ ba' \in CorruptOutcomes(nal, corruption_intensity)
    /\ pc' = "corrupt_return"
    /\ UNCHANGED <<data, nals, pos, processed_nals, origin, removed_first_idr,
                   new_nals, new_origin, out, options, nal, orch, io, req, rand, drew_for>>

NextCorrupt == CorruptCall

SpecCorrupt == InitCorrupt /\ [][NextCorrupt]_vars

\* --------------------------------------------------------- orchestrator spec

InitOrch ==
    /\ PipelineIdle
    /\ step = [r \in Runs |-> "ExtractA"]
    /\ offset \in [Runs -> OffsetValues]
    /\ video2_final = [r \in Runs |-> Path("video2_final", r)]
    /\ steps_log = [r \in Runs |-> <<>>]
    /\ files = {}
    /\ returned = [r \in Runs |-> NoPath]
    /\ reads = [r \in Runs |-> {}]
    /\ writes = [r \in Runs |-> {}]
    /\ ReqIdle
    /\ RandIdle

NextOrch ==
    \E r \in Runs :
      \/ ExtractA(r)
      \/ ExtractB(r)
      \/ MutateB(r)
      \/ OffsetB(r)
      \/ Concatenate(r)
      \/ Remux(r)

SpecOrch == InitOrch /\ [][NextOrch]_vars

\* -------------------------------------------------------------- request spec

\* The uploads' names: none selected, allowed (one in capitals, one with a
\* path separator), and not allowed (wrong extension, no extension).
FileNames == {<<>>, ClipMp4, <<"CLIP", ".", "MOV">>,
              <<".", ".", "/", "clip", ".", "mp4">>,
              <<"notes", ".", "txt">>, <<"clip">>}

\* request.files: each of the two fields present or not, with any name.
FileFields ==
    UNION {[present -> FileNames] : present \in SUBSET {"video1", "video2"}}

\* The text of a numeric field: the key is absent, or its value is not a
\* number, a decimal literal, or an integer literal.
RawValues == {"absent", "abc", "2.0", "3"}

\* The forms whose keys other than `varied` are absent.
FormsVarying(varied) ==
    {[field \in FieldNames |-> IF field \in varied THEN g[field] ELSE "absent"] :
       g \in [varied -> RawValues]}

\* The state of process_videos and of the files before any request is handled.
RequestStart ==
    /\ PipelineIdle
    /\ step = [r \in Runs |-> "idle"]
    /\ offset = [r \in Runs |-> 0]
    /\ video2_final = [r \in Runs |-> Path("video2_final", r)]
    /\ steps_log = [r \in Runs |-> <<>>]
    /\ files = {}
    /\ returned = [r \in Runs |-> NoPath]
    /\ reads = [r \in Runs |-> {}]
    /\ writes = [r \in Runs |-> {}]
    /\ params = [r \in Runs |-> ParsedParams(EmptyForm)]
    /\ flashes = [r \in Runs |-> <<>>]
    /\ response = [r \in Runs |-> "none"]
    /\ video_url = [r \in Runs |-> NoPath]
    /\ RandIdle

\* One request, with any uploads and any offset text.
InitRequest ==
    /\ RequestStart
    /\ rpc = [r \in Runs |-> IF r = 1 THEN "received" ELSE "none"]
    /\ \E fs \in FileFields, f \in FormsVarying({"offset"}) :
         /\ request_files = [r \in Runs |-> IF r = 1 THEN fs ELSE [field \in {"video1", "video2"} |-> ClipMp4]]
         /\ form = [r \in Runs |-> IF r = 1 THEN f ELSE EmptyForm]

NextRequest ==
    \E r \in Runs :
      \/ Receive(r)
      \/ SaveUploads(r)
      \/ ExtractA(r)
      \/ ExtractB(r)
      \/ MutateB(r)
      \/ OffsetB(r)
      \/ Concatenate(r)
      \/ Remux(r)
      \/ RenderResult(r)
      \/ HandleException(r)

SpecRequest == InitRequest /\ [][NextRequest]_vars

\* ----------------------------------------------------------------- form spec

\* One request with any text in every numeric field; the uploads are accepted
\* or lack a field.
InitForm ==
    /\ RequestStart
    /\ rpc = [r \in Runs |-> IF r = 1 THEN "received" ELSE "none"]
    /\ \E fs \in {[field \in {"video1", "video2"} |-> ClipMp4], [field \in {"video1"} |-> ClipMp4]},
          f \in FormsVarying(FieldNames) :
         /\ request_files = [r \in Runs |-> IF r = 1 THEN fs ELSE [field \in {"video1", "video2"} |-> ClipMp4]]
         /\ form = [r \in Runs |-> IF r = 1 THEN f ELSE EmptyForm]

NextForm == \E r \in Runs : Receive(r)

SpecForm == InitForm /\ [][NextForm]_vars

\* ----------------------------------------------------------- concurrency spec

\* Every run handles a request at the same time; the uploads are accepted and
\* may have the same name in every request.
InitConcurrent ==
    /\ RequestStart
    /\ rpc = [r \in Runs |-> "received"]
    /\ request_files \in [Runs -> {[field \in {"video1", "video2"} |-> ClipMp4]}]
    /\ form \in [Runs -> {EmptyForm, [EmptyForm EXCEPT !["offset"] = "2.0"]}]

SpecConcurrent == InitConcurrent /\ [][NextRequest]_vars

\* ------------------------------------------------------- random source spec

\* The most draws one mutation makes.
MaxDraws == 3

\* One call of random.uniform, random.randint or random.shuffle by run r's
\* process_video2_raw (lines 115, 120, 125, 141; corrupt_nal 38-42): `random`
\* is the module imported on line 4, one generator for the whole process,
\* never seeded, so the call gets the generator's next value whichever run
\* makes it.
Draw(r) ==
    /\ Len(drawn[r]) < want[r]
    /\ rng' = rng + 1
    /\ drawn' = [drawn EXCEPT ![r] = Append(@, rng')]
    /\ UNCHANGED <<want, pipeline, options, nal, ba, orch, io, req>>

\* Every run is inside process_video2_raw, each with its own number of draws
\* to make.
InitRandom ==
    /\ PipelineIdle
    /\ step = [r \in Runs |-> "MutateB"]
    /\ offset = [r \in Runs |-> 0]
    /\ video2_final = [r \in Runs |-> Path("video2_final", r)]
    /\ steps_log = [r \in Runs |-> <<>>]
    /\ files = {}
    /\ returned = [r \in Runs |-> NoPath]
    /\ reads = [r \in Runs |-> {}]
    /\ writes = [r \in Runs |-> {}]
    /\ ReqIdle
    /\ rng = 0
    /\ drawn = [r \in Runs |-> <<>>]
    /\ want \in [Runs -> 0..MaxDraws]

NextRandom == \E r \in Runs : Draw(r)

SpecRandom == InitRandom /\ [][NextRandom]_vars

\* ------------------------------------------------------ the claims' vocabulary

\* The unit has a header byte and its low five bits are t.
HasType(unit, t) == Len(unit) >= 5 /\ unit[5] % 32 = t

IsIdr(unit) == HasType(unit, 5)

IsP(unit) == HasType(unit, 1)

IsParamSet(unit) == HasType(unit, 7) \/ HasType(unit, 8)

\* The multiset of the elements of s.
BagOf(s) ==
    [x \in {s[k] : k \in DOMAIN s} |-> Cardinality({k \in DOMAIN s : s[k] = x})]

\* The positions in nals of the IDR units, and the earliest of them.
IdrPositions == {q \in DOMAIN nals : IsIdr(nals[q])}

FirstIdrPosition == CHOOSE q \in IdrPositions : \A q2 \in IdrPositions : q <= q2

\* The positions in nals the filter stages 1-3 let through.
Survivors ==
    {q \in DOMAIN nals :
        /\ Len(nals[q]) >= 5
        /\ ~(remove_spspps = "yes" /\ IsParamSet(nals[q]))
        /\ ~(removal_mode = "all" /\ IsIdr(nals[q]))
        /\ ~(removal_mode = "first" /\ IsIdr(nals[q]) /\ q = FirstIdrPosition)}

\* The offsets at which the start code occurs in d.
MatchPositions(d) ==
    {p \in 0..(Len(d) - 4) : Slice(d, p, p + 4) = start_code}

\* The k-th smallest element of the set of integers M.
KthSmallest(M, k) == CHOOSE p \in M : Cardinality({q \in M : q < p}) = k - 1

\* How many entries of processed_nals were made from the unit at position q.
Yield(q) == Cardinality({k \in DOMAIN origin : origin[k] = q})

\* ------------------------------------------------------------------ claims

\* C1 as stated: with removal_mode 'first' and N >= 1 IDR units in the input,
\* the written units hold exactly N-1 IDR units, all but the earliest one.
C1_FirstIdrOnlyAsStated ==
    (pc = "done" /\ removal_mode = "first" /\ IdrPositions # {}) =>
        LET kept == {k \in DOMAIN processed_nals : IsIdr(processed_nals[k])}
        IN  /\ Cardinality(kept) = Cardinality(IdrPositions) - 1
            /\ {origin[k] : k \in kept} = IdrPositions \ {FirstIdrPosition}

\* C1 amended: the same when in addition drop_frame_percentage is 0; each kept
\* IDR unit is byte-identical to the input unit it comes from.
C1_FirstIdrOnlyWithoutDrop ==
    (pc = "done" /\ removal_mode = "first" /\ drop_frame_percentage = 0
        /\ IdrPositions # {}) =>
        LET kept == {k \in DOMAIN processed_nals : IsIdr(processed_nals[k])}
        IN  /\ Cardinality(kept) = Cardinality(IdrPositions) - 1
            /\ {origin[k] : k \in kept} = IdrPositions \ {FirstIdrPosition}
            /\ \A k \in kept : processed_nals[k] = nals[origin[k]]

C1_Witness ==
    /\ pc = "done"
    /\ removal_mode = "first"
    /\ drop_frame_percentage = 0
    /\ nals = <<UnitIdr, UnitIdr>>
    /\ processed_nals = <<UnitIdr>>
    /\ origin = <<2>>

\* C2: with removal_mode 'all', under every setting of the other options, no
\* unit kept, reordered or written has type 5.
C2_NoIdrWhenAll ==
    removal_mode = "all" =>
        /\ \A k \in DOMAIN processed_nals : ~IsIdr(processed_nals[k])
        /\ \A k \in DOMAIN new_nals : ~IsIdr(new_nals[k])
        /\ pc = "done" => out = Concat(processed_nals)

C2_Witness ==
    /\ pc = "done"
    /\ removal_mode = "all"
    /\ IdrPositions # {}
    /\ duplicate_pframes = 2
    /\ Len(processed_nals) = 2
    /\ \E k \in DOMAIN processed_nals : processed_nals[k] # nals[origin[k]]

\* C3 as stated: concatenating the tokenizer's units gives back the buffer.
C3_RoundTripAsStated ==
    pc # "read" => Concat(nals) = data

\* C3 amended: concatenating the units gives back the buffer from its first
\* start code on (nothing when it holds none), hence the whole buffer exactly
\* when it is empty or begins with a start code.
C3_RoundTripFromFirstStartCode ==
    pc # "read" =>
        LET M == MatchPositions(data)
        IN  /\ M = {} => Concat(nals) = <<>>
            /\ M # {} => Concat(nals) = Slice(data, KthSmallest(M, 1), Len(data))
            /\ Concat(nals) = data <=> (data = <<>> \/ 0 \in M)

C3_Witness ==
    /\ pc # "read"
    /\ Len(nals) = 2
    /\ Len(nals[2]) > 4
    /\ Concat(nals) = data

\* C4 as stated: with duplicate_probability 100 every P-frame of the input
\* has exactly duplicate_pframes units in the stage-5 output.
C4_DuplicateCountAsStated ==
    (pc = "reorder" /\ duplicate_probability = 100) =>
        \A q \in DOMAIN nals : IsP(nals[q]) => Yield(q) = duplicate_pframes

\* C4 amended: with duplicate_probability 100 and drop_frame_percentage 0
\* every P-frame of the input has exactly duplicate_pframes units in the
\* stage-5 output (none when the count is 0), and the units that are not
\* P-frames are the survivors of stages 1-3, once each, unchanged, in order.
C4_DuplicateCountWithoutDrop ==
    (pc = "reorder" /\ duplicate_probability = 100 /\ drop_frame_percentage = 0) =>
        /\ \A q \in DOMAIN nals : IsP(nals[q]) => Yield(q) = duplicate_pframes
        /\ SelectSeq(processed_nals, LAMBDA u : ~IsP(u))
             = [k \in 1..Cardinality({q \in Survivors : ~IsP(nals[q])}) |->
                  nals[KthSmallest({q \in Survivors : ~IsP(nals[q])}, k)]]

C4_Witness ==
    /\ pc = "reorder"
    /\ duplicate_probability = 100
    /\ drop_frame_percentage = 0
    /\ duplicate_pframes = 2
    /\ nals = <<UnitP, UnitIdr>>
    /\ Len(processed_nals) = 3

\* C5: with reorder_intensity 100 and a window size w >= 2, the reorder stage
\* fills the positions of each window of w units of the stage-5 output (the
\* last one possibly shorter) with a permutation of that window's units.
C5_WindowsArePermuted ==
    (pc = "windows" /\ reorder_intensity = 100 /\ reorder_window_size >= 2) =>
        LET w == reorder_window_size
            done == Min(pos, Len(processed_nals))
        IN  /\ Len(new_nals) = done
            /\ \A a \in 0..done :
                 a % w = 0 =>
                   BagOf(Slice(new_nals, a, Min(done, a + w)))
                     = BagOf(Slice(processed_nals, a, Min(done, a + w)))

C5_Witness ==
    /\ pc = "windows"
    /\ reorder_intensity = 100
    /\ reorder_window_size = 2
    /\ pos >= Len(processed_nals)
    /\ Len(processed_nals) = 3
    /\ new_nals[1] # processed_nals[1]

\* C6: corrupt_nal returns a buffer of the same length; a unit of at most 5
\* bytes comes back unchanged; a longer one differs in exactly one byte, at an
\* index >= 5, and with intensity 0 that byte is the original plus 1 mod 256.
C6_CorruptorLocality ==
    pc = "corrupt_return" =>
        LET changed == {k \in 0..(Len(nal) - 1) : ba[k + 1] # nal[k + 1]}
        IN  /\ Len(ba) = Len(nal)
            /\ Len(nal) <= 5 => ba = nal
            /\ Len(nal) > 5 =>
                 /\ Cardinality(changed) = 1
                 /\ \A k \in changed : k >= 5
                 /\ corruption_intensity = 0 =>
                      \A k \in changed : ba[k + 1] = (nal[k + 1] + 1) % 256

C6_Witness ==
    /\ pc = "corrupt_return"
    /\ corruption_intensity = 0
    /\ nal = start_code \o <<65, 255>>
    /\ ba = start_code \o <<65, 0>>

\* C7: with remove_spspps 'yes', removal_mode 'first' and the drop, duplicate,
\* reorder and corrupt percentages all 0, the written units hold no SPS or
\* PPS, lack the first IDR, keep every later IDR, and hold every P-frame
\* unchanged, once, in the original order.
C7_FilterOnlyRun ==
    (pc = "done" /\ remove_spspps = "yes" /\ removal_mode = "first"
        /\ drop_frame_percentage = 0 /\ duplicate_probability = 0
        /\ reorder_intensity = 0 /\ corrupt_pframes_chance = 0) =>
        /\ \A k \in DOMAIN processed_nals : ~IsParamSet(processed_nals[k])
        /\ SelectSeq(processed_nals, IsIdr)
             = IF IdrPositions = {} THEN <<>> ELSE Tail(SelectSeq(nals, IsIdr))
        /\ SelectSeq(processed_nals, IsP) = SelectSeq(nals, IsP)
        /\ out = Concat(processed_nals)

C7_Witness ==
    /\ pc = "done"
    /\ remove_spspps = "yes" /\ removal_mode = "first"
    /\ drop_frame_percentage = 0 /\ duplicate_probability = 0
    /\ reorder_intensity = 0 /\ corrupt_pframes_chance = 0
    /\ Len(nals) = 8
    /\ nals[1] = ScenarioUnit(0)
    /\ processed_nals = <<ScenarioUnit(3), ScenarioUnit(4), ScenarioUnit(5),
                          ScenarioUnit(6), ScenarioUnit(7)>>

\* C8: a unit shorter than 5 bytes never makes the run fail (its header byte
\* is never read) and never reaches the output: every unit kept, reordered or
\* written has at least 5 bytes.
C8_ShortUnitsDropped ==
    /\ pc # "raised"
    /\ \A k \in DOMAIN processed_nals : Len(processed_nals[k]) >= 5
    /\ \A k \in DOMAIN new_nals : Len(new_nals[k]) >= 5
    /\ \A k \in DOMAIN origin : Len(nals[origin[k]]) >= 5

C8_Witness ==
    /\ pc = "done"
    /\ nals = <<UnitShort, UnitP>>
    /\ processed_nals # <<>>

\* C9: the tokenizer's units are, in order, the pieces of the buffer that
\* begin at each occurrence of the start code (occurrences cannot overlap, so
\* a scan resuming 4 bytes past each match finds them all, the adjacent ones
\* included) and end right before the next one, the last at the buffer's end;
\* a buffer without a start code gives no unit.
C9_TokenizerBoundaries ==
    pc # "read" =>
        LET M == MatchPositions(data)
            n == Cardinality(M)
        IN  /\ Len(nals) = n
            /\ \A k \in 1..n :
                 /\ k <= Len(nals)
                 /\ nals[k] = Slice(data, KthSmallest(M, k),
                                    IF k = n THEN Len(data) ELSE KthSmallest(M, k + 1))
                 /\ Len(nals[k]) >= 4
                 /\ SubSeq(nals[k], 1, 4) = start_code

C9_Witness ==
    /\ pc # "read"
    /\ Len(nals) = 2
    /\ nals[1] = start_code
    /\ data[1] # 0

\* C10: in every run the steps started are, in order, a prefix of ExtractA,
\* ExtractB, MutateB, OffsetB (only with a positive offset), Concatenate,
\* Remux; only the last step started can have failed, after a failure the run
\* is over, and it is Done, returning the output path, exactly when every
\* step of the order ran and succeeded.
C10_StepOrder ==
    \A r \in Runs :
        LET log == steps_log[r]
            order == IF offset[r] > 0
                     THEN <<"ExtractA", "ExtractB", "MutateB", "OffsetB",
                            "Concatenate", "Remux">>
                     ELSE <<"ExtractA", "ExtractB", "MutateB", "Concatenate", "Remux">>
            allOk == \A k \in DOMAIN log : log[k].ok
        IN  /\ Len(log) <= Len(order)
            /\ \A k \in DOMAIN log : log[k].step = order[k]
            /\ \A k \in DOMAIN log : k < Len(log) => log[k].ok
            /\ step[r] = "Failed" <=> ~allOk
            /\ step[r] = "Done" <=> (allOk /\ Len(log) = Len(order))
            /\ (allOk /\ Len(log) < Len(order)) => step[r] = order[Len(log) + 1]
            /\ returned[r] = IF step[r] = "Done" THEN Path("output", r) ELSE NoPath

C10_Witness ==
    /\ step[1] = "Done"
    /\ Len(steps_log[1]) = 6
    /\ step[2] = "Failed"
    /\ Len(steps_log[2]) = 4
    /\ steps_log[2][4].step = "Concatenate"

\* Step `name` of run r has been started.
StepRan(r, name) == \E k \in DOMAIN steps_log[r] : steps_log[r][k].step = name

\* The paths step `name` of run r opened for reading, and for writing.
PathsReadBy(r, name) == {e[2] : e \in {x \in reads[r] : x[1] = name}}

PathsWrittenBy(r, name) == {e[2] : e \in {x \in writes[r] : x[1] = name}}

\* The file names of a run, word by word.
Video1RawName(r) == <<"video1", "_", ToString(r), ".", "264">>

Video2RawName(r) == <<"video2", "_", ToString(r), ".", "264">>

Video2ProcessedName(r) == <<"video2", "_", "processed", "_", ToString(r), ".", "264">>

Video2FinalName(r) == <<"video2", "_", "final", "_", ToString(r), ".", "264">>

FinalName(r) == <<"final", "_", ToString(r), ".", "264">>

OutputName(r) == <<"output", "_", ToString(r), ".", "mp4">>

\* C11: with offset 0 the OffsetB step never starts, no video2_final file is
\* opened or written, and Concatenate reads video1's stream and the file
\* MutateB wrote; with a positive offset OffsetB runs right after MutateB and
\* right before Concatenate, it writes video2_final, and Concatenate reads
\* video1's stream and that file.
C11_OffsetStepOnlyWhenPositive ==
    \A r \in Runs :
      /\ offset[r] = 0 =>
           /\ ~StepRan(r, "OffsetB")
           /\ Video2FinalName(r) \notin files
           /\ \A e \in reads[r] \cup writes[r] : e[2] # Video2FinalName(r)
           /\ StepRan(r, "Concatenate") =>
                /\ PathsWrittenBy(r, "MutateB") = {Video2ProcessedName(r)}
                /\ PathsReadBy(r, "Concatenate") =
                     {Video1RawName(r)} \cup PathsWrittenBy(r, "MutateB")
      /\ (offset[r] > 0 /\ StepRan(r, "Concatenate")) =>
           /\ \E k \in DOMAIN steps_log[r] :
                /\ k + 2 <= Len(steps_log[r])
                /\ steps_log[r][k].step = "MutateB"
                /\ steps_log[r][k + 1].step = "OffsetB"
                /\ steps_log[r][k + 2].step = "Concatenate"
           /\ PathsWrittenBy(r, "OffsetB") = {Video2FinalName(r)}
           /\ PathsReadBy(r, "OffsetB") = {Video2ProcessedName(r)}
           /\ PathsReadBy(r, "Concatenate") =
                {Video1RawName(r)} \cup PathsWrittenBy(r, "OffsetB")

\* One run with offset 0 and one with a positive offset have both finished.
C11_Witness ==
    \E r \in Runs, q \in Runs :
      /\ offset[r] = 0 /\ step[r] = "Done"
      /\ offset[q] > 0 /\ step[q] = "Done"

\* A step of request r's run raised.
RunFailed(r) == \E k \in DOMAIN steps_log[r] : ~steps_log[r][k].ok

\* A save of request r raised: an upload was opened and no step ever started.
SaveFailed(r) ==
    /\ PathsWrittenBy(r, "save") # {}
    /\ steps_log[r] = <<>>
    /\ step[r] = "idle"
    /\ rpc[r] \in {"raised", "responded"}

\* Request r's run went through every step: its last one is a successful Remux.
ReachedDone(r) ==
    /\ steps_log[r] # <<>>
    /\ steps_log[r][Len(steps_log[r])] = [step |-> "Remux", ok |-> TRUE]

\* C12: a request in which a save or a pipeline step raised is answered with
\* the redirect to the index page and exactly one flashed message, the failure
\* notice, and no video URL; until it is answered the except clause can run.
\* A video URL is given only to a request whose run reached Done, and it is
\* the URL of that run's output file.
C12_FailureHandledOnce ==
    \A r \in Runs :
      /\ (RunFailed(r) \/ SaveFailed(r)) =>
           /\ video_url[r] = NoPath
           /\ rpc[r] # "responded" => ENABLED HandleException(r)
           /\ rpc[r] = "responded" =>
                /\ response[r] = "redirect index"
                /\ flashes[r] =
                     <<"An error occurred during video processing. Please try again.">>
      /\ (video_url[r] # NoPath \/ response[r] = "render index.html") =>
           /\ ReachedDone(r)
           /\ video_url[r] = <<"/", "uploads", "/">> \o OutputName(r)
           /\ flashes[r] = <<>>

\* A request whose Remux step raised after writing its output file has been
\* answered.
C12_Witness ==
    \E r \in Runs :
      /\ rpc[r] = "responded"
      /\ RunFailed(r)
      /\ steps_log[r][Len(steps_log[r])].step = "Remux"
      /\ OutputName(r) \in files

\* The names process() accepts for an upload: those with an extension among
\* mp4, mov, avi, mkv in either case.
AcceptedNames == {<<"clip", ".", "mp4">>, <<"CLIP", ".", "MOV">>,
                  <<".", ".", "/", "clip", ".", "mp4">>}

\* Request r lacks a file field, or one of its files has no name or a name
\* that is not accepted.
InputRejected(r) ==
    \/ "video1" \notin DOMAIN request_files[r]
    \/ "video2" \notin DOMAIN request_files[r]
    \/ \E field \in DOMAIN request_files[r] : request_files[r][field] \notin AcceptedNames

\* The message for the first validation test request r fails.
RejectionMessage(r) ==
    IF DOMAIN request_files[r] # {"video1", "video2"}
    THEN "Both video files are required."
    ELSE IF \E field \in DOMAIN request_files[r] : request_files[r][field] = <<>>
    THEN "No selected file for one or both videos."
    ELSE "One or both files have an invalid file type."

\* No file of run r exists: no path holds its uid.
NoFileOf(r) == \A p \in files : \A k \in DOMAIN p : p[k] # ToString(r)

\* C13: once the handler has looked at a request with a missing file field, an
\* unnamed file or a file of a disallowed type, the request is answered with a
\* redirect to its own URL and the one message of the test it failed; no
\* upload was saved, no file of the run was opened or exists, no step of
\* process_videos started and no video URL was given.  Only such requests get
\* that answer.
C13_InvalidInputRejectedFirst ==
    \A r \in Runs :
      /\ (InputRejected(r) /\ rpc[r] \notin {"none", "received"}) =>
           /\ rpc[r] = "responded"
           /\ response[r] = "redirect request.url"
           /\ flashes[r] = <<RejectionMessage(r)>>
           /\ reads[r] = {} /\ writes[r] = {}
           /\ NoFileOf(r)
           /\ steps_log[r] = <<>> /\ step[r] = "idle"
           /\ video_url[r] = NoPath
      /\ response[r] = "redirect request.url" => InputRejected(r)

\* A request whose first file is accepted and whose second is not has been answered.
C13_Witness ==
    \E r \in Runs :
      /\ rpc[r] = "responded"
      /\ DOMAIN request_files[r] = {"video1", "video2"}
      /\ request_files[r]["video1"] = <<"clip", ".", "mp4">>
      /\ request_files[r]["video2"] = <<"notes", ".", "txt">>

\* The paths run r opened for writing, and for reading, in any step.
PathsWritten(r) == {e[2] : e \in writes[r]}

PathsRead(r) == {e[2] : e \in reads[r]}

\* The names run r may write: its two saved uploads, its five raw-stream
\* files and its output container.
OwnNames(r) ==
    {<<"video1", "_", ToString(r), "_">> \o request_files[r]["video1"],
     <<"video2", "_", ToString(r), "_">> \o request_files[r]["video2"],
     Video1RawName(r), Video2RawName(r), Video2ProcessedName(r),
     Video2FinalName(r), FinalName(r), OutputName(r)}

\* C14: whatever the interleaving of the runs, a run writes only its own
\* eight names, reads only paths it wrote itself, and no path written by one
\* run is read or written by another.
C14_RunsShareNoFile ==
    \A r \in Runs :
      /\ PathsWritten(r) \subseteq OwnNames(r)
      /\ PathsRead(r) \subseteq PathsWritten(r)
      /\ \A q \in Runs \ {r} :
           PathsWritten(r) \cap (PathsRead(q) \cup PathsWritten(q)) = {}

\* Two requests that uploaded files of the same names have both run every step,
\* OffsetB included.
C14_Witness ==
    \E r \in Runs, q \in Runs :
      /\ r # q
      /\ request_files[r] = request_files[q]
      /\ step[r] = "Done" /\ step[q] = "Done"
      /\ Cardinality(PathsWritten(r)) = 8 /\ Cardinality(PathsWritten(q)) = 8

\* C15: the draws a run consumes are the ones it would consume with no other
\* run: consecutive values of the generator, from the value it started on.
C15_DrawsUnaffectedByOtherRuns ==
    \A r \in Runs :
      \A k \in DOMAIN drawn[r] : drawn[r][k] = drawn[r][1] + (k - 1)

\* What an integer field of text `raw` must parse to: the number when
\* the text is an integer literal, the field's default otherwise.
ExpectedInt(raw, default) == IF raw = "3" THEN 3 ELSE default

\* The same for the offset, which may also be a decimal literal.
ExpectedOffset(raw) == IF raw = "3" THEN 3 ELSE IF raw = "2.0" THEN 2 ELSE 0

\* C16: once the handler has parsed request r's form, each numeric parameter
\* is the number its text denotes or, when the text is absent or does not
\* parse, the field's default (0.0, 1, 100, 0, 10, 0, 50, 0), whatever the
\* other fields hold; parsing never raises: the request goes on to validation
\* and, when its uploads are accepted, to the saving of the uploads.
C16_UnparseableFieldsGetDefaults ==
    \A r \in Runs :
      rpc[r] \notin {"none", "received"} =>
        /\ offset[r] = ExpectedOffset(form[r]["offset"])
        /\ params[r].duplicate_pframes = ExpectedInt(form[r]["duplicate_pframes"], 1)
        /\ params[r].duplicate_probability = ExpectedInt(form[r]["duplicate_probability"], 100)
        /\ params[r].reorder_intensity = ExpectedInt(form[r]["reorder_intensity"], 0)
        /\ params[r].reorder_window_size = ExpectedInt(form[r]["reorder_window_size"], 10)
        /\ params[r].corrupt_pframes_chance = ExpectedInt(form[r]["corrupt_pframes"], 0)
        /\ params[r].corruption_intensity = ExpectedInt(form[r]["corruption_intensity"], 50)
        /\ params[r].drop_frame_percentage = ExpectedInt(form[r]["drop_frame_percentage"], 0)
        /\ response[r] # "redirect index"
        /\ rpc[r] # "raised"
        /\ DOMAIN request_files[r] = {"video1", "video2"} =>
             /\ rpc[r] = "save"
             /\ response[r] = "none"
             /\ flashes[r] = <<>>

\* A request in which no numeric field parses (not even as the decimal its
\* integer fields hold) has been parsed and is about to save its uploads.
C16_Witness ==
    \E r \in Runs :
      /\ rpc[r] = "save"
      /\ form[r]["offset"] = "abc"
      /\ form[r]["duplicate_pframes"] = "2.0"
      /\ \A field \in DOMAIN form[r] \ {"offset", "duplicate_pframes"} : form[r][field] = "abc"

\* The unit holds a start code after its first four bytes.
HasInnerStartCode(unit) ==
    \E p \in 1..(Len(unit) - 4) : SubSeq(unit, p + 1, p + 4) = <<0, 0, 0, 1>>

\* Every written unit begins with 00 00 00 01.
UnitsBeginWithStartCode ==
    \A k \in DOMAIN processed_nals :
      /\ Len(processed_nals[k]) >= 4
      /\ SubSeq(processed_nals[k], 1, 4) = <<0, 0, 0, 1>>

\* C17 as stated: every written unit begins with 00 00 00 01, and tokenizing
\* the written bytes gives back the written units.
C17_RetokenizeAsStated ==
    pc = "done" => (UnitsBeginWithStartCode /\ Tokenize(out) = processed_nals)

\* C17: every written unit begins with 00 00 00 01; tokenizing the written
\* bytes gives back the written units whenever none of them holds a start
\* code after its first four bytes, which is so whenever the corrupt chance
\* is 0; and whenever the two differ, one written unit holds such a start code
\* and differs from the input unit it was made from.
C17_RetokenizeUnlessCorruptedIntoStartCode ==
    pc = "done" =>
      LET same == Tokenize(out) = processed_nals
      IN  /\ UnitsBeginWithStartCode
          /\ (\A k \in DOMAIN processed_nals : ~HasInnerStartCode(processed_nals[k]))
               => same
          /\ corrupt_pframes_chance = 0 => same
          /\ ~same =>
               \E k \in DOMAIN processed_nals :
                 /\ HasInnerStartCode(processed_nals[k])
                 /\ processed_nals[k] # nals[origin[k]]

\* Two units were written in swapped order, one of them a corrupted copy, and
\* tokenizing the written bytes gives them back.
C17_Witness ==
    /\ pc = "done"
    /\ Len(processed_nals) = 2
    /\ origin = <<2, 1>>
    /\ \E k \in DOMAIN processed_nals : processed_nals[k] # nals[origin[k]]
    /\ Tokenize(out) = processed_nals

\* The unit at position q is the earliest IDR unit of the input.
IsFirstIdr(q) == IsIdr(nals[q]) /\ \A j \in 1..(q - 1) : ~IsIdr(nals[j])

\* Stages 1 to 3 remove the unit at position q: it is too short, a parameter
\* set being stripped, or an IDR unit being removed.
RemovedEarly(q) ==
    \/ Len(nals[q]) < 5
    \/ remove_spspps = "yes" /\ IsParamSet(nals[q])
    \/ removal_mode = "all" /\ IsIdr(nals[q])
    \/ removal_mode = "first" /\ IsFirstIdr(q)

\* The positions the main loop has passed.
Passed == DOMAIN drew_for

\* C18: the stages act in the order filter, strip, I-frame removal, random
\* drop, P-frame stage.  A unit that stages 1 to 3 remove calls for no random
\* draw and is the source of no written unit; a unit they let through calls
\* for a draw exactly when the drop percentage is positive or it is a P-frame.
\* With removal_mode 'first' the flag is set exactly when the loop has passed
\* an IDR unit, whatever was drawn; stage 3 then removes at most one unit, the
\* earliest IDR unit, and any later IDR unit is either written once,
\* unchanged, or was dropped by a draw of the random drop stage.  This holds
\* during the main loop, when it has ended, and when the output is written.
C18_StageOrder ==
    pc \in {"loop", "reorder", "done"} =>
      /\ \A q \in Passed :
           LET yield == Yield(q)
           IN  /\ RemovedEarly(q) => (~drew_for[q] /\ yield = 0)
               /\ ~RemovedEarly(q) =>
                    (drew_for[q] <=> (drop_frame_percentage > 0 \/ IsP(nals[q])))
               /\ (removal_mode = "first" /\ IsIdr(nals[q]) /\ ~IsFirstIdr(q)) =>
                    \/ /\ yield = 1
                       /\ \E k \in DOMAIN origin : origin[k] = q /\ processed_nals[k] = nals[q]
                    \/ /\ yield = 0
                       /\ drew_for[q]
                       /\ drop_frame_percentage > 0
               /\ (removal_mode = "first" /\ ~drew_for[q] /\ yield = 0
                     /\ Len(nals[q]) >= 5 /\ ~IsParamSet(nals[q])) => IsFirstIdr(q)
      /\ removal_mode = "first" =>
           (removed_first_idr <=> (\E q \in Passed : IsIdr(nals[q])))

\* With removal_mode 'first' and a positive drop percentage, two IDR units
\* were read: the first was removed without a draw and the second was dropped
\* by a draw.
C18_Witness ==
    /\ pc = "done"
    /\ removal_mode = "first"
    /\ drop_frame_percentage > 0
    /\ Cardinality(IdrPositions) = 2
    /\ processed_nals = <<>>
    /\ \E q \in IdrPositions : q # FirstIdrPosition /\ drew_for[q]

\* C19: every written unit was made from one input unit, of which it has the
\* length and the type; it differs from that unit only when the unit is a
\* P-frame, the duplicate and corrupt chances are positive and the P-frame was
\* written duplicate_pframes times.  An input unit that is no P-frame is
\* written at most once; a P-frame is written 0, 1 or duplicate_pframes times.
\* This holds of the units kept during the main loop and when it has ended,
\* and of the units written.
C19_Provenance ==
    pc \in {"loop", "reorder", "done"} =>
      /\ Len(origin) = Len(processed_nals)
      /\ \A k \in DOMAIN processed_nals :
           /\ origin[k] \in DOMAIN nals
           /\ LET source == nals[origin[k]]
                  written == processed_nals[k]
              IN  /\ Len(written) = Len(source)
                  /\ written[5] % 32 = source[5] % 32
                  /\ written # source =>
                       /\ IsP(source)
                       /\ corrupt_pframes_chance > 0
                       /\ duplicate_probability > 0
                       /\ Yield(origin[k]) = duplicate_pframes
      /\ \A q \in DOMAIN nals :
           IF IsP(nals[q])
           THEN Yield(q) \in {0, 1, duplicate_pframes}
           ELSE Yield(q) \in {0, 1}

\* A P-frame was written twice: one copy corrupted, the other unchanged.
C19_Witness ==
    /\ pc = "done"
    /\ \E k \in DOMAIN processed_nals, j \in DOMAIN processed_nals :
         /\ origin[k] = origin[j]
         /\ IsP(nals[origin[k]])
         /\ processed_nals[k] # nals[origin[k]]
         /\ processed_nals[j] = nals[origin[j]]

\* The unit passes the validity filter.
LongEnough(unit) == Len(unit) >= 5

\* Every mutation is switched off.
AllOff ==
    /\ remove_spspps = "no"
    /\ removal_mode = "none"
    /\ drop_frame_percentage = 0
    /\ corrupt_pframes_chance = 0
    /\ reorder_intensity = 0
    /\ duplicate_probability = 0 \/ duplicate_pframes = 1

\* C20: with every mutation switched off, the written units are the input
\* units of length >= 5, unchanged and in their order, and the written bytes
\* are those units one after another; and whenever the reorder intensity is 0
\* or the window size at most 1, the reorder stage goes straight to the
\* writing and leaves the list of units as it is.
C20_IdentityWhenOff ==
    /\ [](  (pc = "done" /\ AllOff) =>
              /\ processed_nals = SelectSeq(nals, LongEnough)
              /\ origin = SelectSeq([q \in DOMAIN nals |-> q],
                                    LAMBDA q : LongEnough(nals[q]))
              /\ out = Concat(SelectSeq(nals, LongEnough))  )
    /\ [][  (pc = "reorder" /\ (reorder_intensity = 0 \/ reorder_window_size <= 1)) =>
              (pc' = "write" /\ processed_nals' = processed_nals /\ origin' = origin)  ]_vars

\* With every mutation switched off, a stream of a parameter set, an IDR unit
\* and P-frames was written as it was read.
C20_Witness ==
    /\ pc = "done"
    /\ AllOff
    /\ Len(nals) >= 4
    /\ \E q \in DOMAIN nals : IsParamSet(nals[q])
    /\ \E q \in DOMAIN nals : IsIdr(nals[q])
    /\ \E q \in DOMAIN nals : IsP(nals[q])
    /\ processed_nals = nals

=============================================================================
